---- MODULE Spec2Model ----
(***************************************************************************)
(* Model of the k10 multiply/divide standalone testbench                   *)
(* (rtl/k10/tb/tb_mul_div.cpp): the protocol driver (reset, run_div_op,    *)
(* run_mul_op), the conformance checker (check), the reference oracle      *)
(* (riscv_div, riscv_divu, riscv_rem, riscv_remu) and main's case list.    *)
(*                                                                         *)
(* A 32-bit word is represented by the integer that has the same           *)
(* two's-complement bit pattern (0xFFFFFFFF is -1, 0x80000000 is -2^31),   *)
(* so that bit-for-bit equality of words is equality of integers and no    *)
(* intermediate value leaves the 32-bit range.                             *)
(*                                                                         *)
(* One step of the model is one stretch of driver code that contains at    *)
(* most one tick().  The unit under test (Vtb_mul_div) is opaque: under    *)
(* Spec each tick lets it put any values on o_done, o_busy and o_result;   *)
(* under SpecContract it keeps done and busy mutually exclusive.  The      *)
(* variables seen, ticks, lowticks, obs, pass0, fail0 and failed record    *)
(* what the unit was shown and what the driver sampled; the program never  *)
(* reads them.                                                             *)
(*                                                                         *)
(* Two further programs of the repository are modelled as records: tb is   *)
(* the core testbench driver (rtl/k10/tb/k10_tb.cpp, SpecTb) and fw the    *)
(* firmware self-test (sw/k10/test/k10_c_selftest.c, SpecFw).  Each        *)
(* specification moves its own program only.                               *)
(***************************************************************************)
EXTENDS Integers, Sequences, FiniteSets, TLC

VARIABLES
    i_rst_n, i_start, i_op, i_a, i_b,   \* signals driven into the unit
    o_done, o_busy, o_result,           \* signals sampled from the unit
    pass_count, fail_count,             \* the checker's tallies
    ip, pc,                             \* main's statement, position in it
    i, cycles, result, captured,        \* locals of the driver routines
    r, cyc, retval,                     \* main's r and cyc, value returned
    exit_status,                        \* main's return value
    unit,                               \* what is known of the unit under test
    seen, ticks, lowticks,              \* inputs at the last tick; ticks of the
                                        \* statement, and those with start low
    obs,                                \* the cycle the driver sampled its result on
    pass0, fail0,                       \* tallies when the statement began
    failed,                             \* a timeout, a missing multiply done or
                                        \* a mismatch has been seen in the run
    orc,                                \* the oracle applied to a pair of words
    tb,                                 \* the core testbench driver (k10_tb)
    fw                                  \* the firmware self-test

vars == <<i_rst_n, i_start, i_op, i_a, i_b, o_done, o_busy, o_result,
          pass_count, fail_count, ip, pc, i, cycles, result, captured,
          r, cyc, retval, exit_status, unit, seen, ticks, lowticks, obs,
          pass0, fail0, failed, orc, tb, fw>>

\* the variables of the multiply/divide testbench
mainvars == <<i_rst_n, i_start, i_op, i_a, i_b, o_done, o_busy, o_result,
              pass_count, fail_count, ip, pc, i, cycles, result, captured,
              r, cyc, retval, exit_status, unit, seen, ticks, lowticks, obs,
              pass0, fail0, failed>>

----------------------------------------------------------------------------
(* Words and program constants *)

\* the word whose high and low 16-bit halves are hi and lo
W(hi, lo) == IF hi >= 32768 THEN (hi - 65536) * 65536 + lo ELSE hi * 65536 + lo

INT_MIN == W(32768, 0)
ALL_ONES == W(65535, 65535)
DEADBEEF == W(57005, 48879)

MD_MUL == 0
MD_MULH == 1
MD_MULHSU == 2
MD_MULHU == 3
MD_DIV == 4
MD_DIVU == 5
MD_REM == 6
MD_REMU == 7

PollBound == 200
ResetHold == 5

\* k10_tb.cpp
RESET_CYCLES == 5

----------------------------------------------------------------------------
(* Bounds of the exploration *)

\* main is run with its list of statements (resets and cases) cut to the
\* first MaxStmts; the summary follows the last of them
MaxStmts == 7
\* the unit may raise o_done on poll 1..MaxEarly, or on the last poll
MaxEarly == 2
\* the oracle is applied to the words main uses and to the words within
\* MaxMag of 0, of the most negative and of the most positive value
MaxMag == 2
\* k10_tb's loop is run with this limit in place of the 1'000'000 cycles
\* of MAX_CYCLES
MaxCycles == 12
\* the firmware's wait loops are run with this limit in place of their
\* 10000 iterations
MaxWait == 2
\* no trap is taken once trap_count has reached MaxTraps
MaxTraps == 6

----------------------------------------------------------------------------
(* Reference oracle *)

\* a / b rounding toward minus infinity
TruncDivPos_Floor(a, b) == a \div b

\* C's a / b on int32_t, b > 0: the quotient rounded toward zero
TruncDivPos(a, b) == IF a >= 0 \/ a % b = 0 THEN a \div b ELSE (a \div b) + 1

\* C's a / b on int32_t, b # 0 and not (a = INT_MIN and b = -1)
TruncDiv(a, b) ==
    IF b > 0 THEN TruncDivPos(a, b)
    ELSE IF b = INT_MIN THEN (IF a = INT_MIN THEN 1 ELSE 0)
    ELSE 0 - TruncDivPos(a, 0 - b)

\* C's a % b on int32_t, b > 0: zero or of the sign of a
TruncRemPos(a, b) == IF a >= 0 \/ a % b = 0 THEN a % b ELSE (a % b) - b

\* a % b taking the sign of the divisor
TruncRem_Floor(a, b) ==
    IF b > 0 THEN a % b
    ELSE IF b = INT_MIN THEN (IF a = INT_MIN THEN 0 ELSE a)
    ELSE IF a % (0 - b) = 0 THEN 0 ELSE (a % (0 - b)) + b

\* C's a % b on int32_t, b # 0 and not (a = INT_MIN and b = -1)
TruncRem(a, b) ==
    IF b > 0 THEN TruncRemPos(a, b)
    ELSE IF b = INT_MIN THEN (IF a = INT_MIN THEN 0 ELSE a)
    ELSE TruncRemPos(a, 0 - b)

\* a < b as unsigned words
ULess(a, b) == IF (a >= 0) = (b >= 0) THEN a < b ELSE b < 0

\* a / b and a % b taking the operands as signed
UDivRem_Signed(a, b) ==
    IF a = INT_MIN /\ b = -1 THEN <<INT_MIN, 0>>
    ELSE <<TruncDiv(a, b), TruncRem(a, b)>>

\* C's a / b and a % b on uint32_t, b # 0, as <<quotient, remainder>>
UDivRem(a, b) ==
    IF b < 0 THEN (IF ULess(a, b) THEN <<0, a>> ELSE <<1, a - b>>)
    ELSE IF a >= 0 THEN <<a \div b, a % b>>
    ELSE IF b = 1 THEN <<a, 0>>
    ELSE LET half == ((a \div 2) + 1073741824) + 1073741824
             lsb  == a % 2
             qh   == half \div b
             rh   == half % b
         IN  IF rh >= (b - rh) - lsb
             THEN <<2 * qh + 1, rh - ((b - rh) - lsb)>>
             ELSE <<2 * qh, 2 * rh + lsb>>

\* riscv_div applying the overflow rule to every divisor
riscv_div_OverflowAnyDivisor(a, b) ==
    IF b = 0 THEN ALL_ONES
    ELSE IF a = INT_MIN THEN INT_MIN
    ELSE TruncDiv(a, b)

riscv_div(a, b) ==
    IF b = 0 THEN ALL_ONES
    ELSE IF a = INT_MIN /\ b = -1 THEN INT_MIN
    ELSE TruncDiv(a, b)

riscv_divu(a, b) == IF b = 0 THEN ALL_ONES ELSE UDivRem(a, b)[1]

riscv_rem(a, b) ==
    IF b = 0 THEN a
    ELSE IF a = INT_MIN /\ b = -1 THEN 0
    ELSE TruncRem(a, b)

\* riscv_remu returning zero for a zero divisor
riscv_remu_ZeroOnZero(a, b) == IF b = 0 THEN 0 ELSE UDivRem(a, b)[2]

riscv_remu(a, b) == IF b = 0 THEN a ELSE UDivRem(a, b)[2]

----------------------------------------------------------------------------
(* main's statements, in order *)

RST == [kind |-> "reset", op |-> 0, a |-> 0, b |-> 0, expected |-> 0]
MUL(o, x, y, e) == [kind |-> "mul", op |-> o, a |-> x, b |-> y, expected |-> e]
DIV(o, x, y, e) == [kind |-> "div", op |-> o, a |-> x, b |-> y, expected |-> e]

Program ==
    << RST,
       MUL(MD_MUL, 3, 7, 21),
       MUL(MD_MUL, -3, 7, -21),
       MUL(MD_MUL, -3, -7, 21),
       RST,
       DIV(MD_DIVU, 10, 3, 3),
       DIV(MD_REMU, 10, 3, 1),
       DIV(MD_DIVU, 100, 10, 10),
       DIV(MD_REMU, 100, 10, 0),
       RST,
       DIV(MD_DIV, -10, 3, riscv_div(-10, 3)),
       DIV(MD_REM, -10, 3, riscv_rem(-10, 3)),
       DIV(MD_DIV, 10, -3, riscv_div(10, -3)),
       DIV(MD_REM, 10, -3, riscv_rem(10, -3)),
       DIV(MD_DIV, -10, -3, riscv_div(-10, -3)),
       DIV(MD_REM, -10, -3, riscv_rem(-10, -3)),
       RST,
       DIV(MD_DIVU, 42, 0, ALL_ONES),
       DIV(MD_REMU, 42, 0, 42),
       DIV(MD_DIV, -42, 0, ALL_ONES),
       DIV(MD_REM, -42, 0, -42),
       RST,
       DIV(MD_DIV, INT_MIN, -1, INT_MIN),
       DIV(MD_REM, INT_MIN, -1, 0),
       RST,
       DIV(MD_REM, W(3786, 10557), W(60578, 37840),
           riscv_rem(W(3786, 10557), W(60578, 37840))),
       DIV(MD_DIVU, W(61467, 12406), W(27084, 22827),
           riscv_divu(W(61467, 12406), W(27084, 22827))),
       DIV(MD_DIVU, 1, 2, 0),
       DIV(MD_REMU, 1, 2, 1),
       RST,
       DIV(MD_DIVU, 100, 7, riscv_divu(100, 7)),
       DIV(MD_DIVU, 200, 13, riscv_divu(200, 13)),
       DIV(MD_REM, W(4660, 22136), 43981, riscv_rem(W(4660, 22136), 43981)) >>

\* the last statement of main before the summary
LastStmt == IF MaxStmts < Len(Program) THEN MaxStmts ELSE Len(Program)

\* the statement main is at
Stmt == Program[ip]

----------------------------------------------------------------------------
(* The unit under test, as the driver sees it *)

\* values an int that was never assigned may hold
UninitInt == {0, 32767}

\* the word x with its top bit inverted
FlipTop(x) == IF x < 0 THEN x - INT_MIN ELSE x + INT_MIN

\* values the unit may put on o_result while main is at statement s
DutResults(s) == {s.expected, FlipTop(s.expected), DEADBEEF}

\* the polls of a divide on which the unit may raise o_done
DoneCycles == (1..MaxEarly) \cup {PollBound}

\* a unit that may show done and busy together whatever is taken of it
UnitOutputs_Overlap(mayDone) ==
    [done : (IF mayDone THEN BOOLEAN ELSE {FALSE}),
     busy : BOOLEAN,
     res  : DutResults(Stmt)]

\* the outputs the unit may show after a clock cycle: anything when the
\* unit is opaque; done and busy mutually exclusive when the unit is taken
\* to keep its signal contract
UnitOutputs(mayDone) ==
    {o \in [done : (IF mayDone THEN BOOLEAN ELSE {FALSE}),
            busy : BOOLEAN,
            res  : DutResults(Stmt)] :
        unit = "contract" => ~(o.done /\ o.busy)}

\* tick(): one clock cycle; the unit sees the driven inputs and answers
\* with the outputs o; t and l are the ticks counted so far
TickFrom(t, l, o) ==
    /\ o_done' = o.done
    /\ o_busy' = o.busy
    /\ o_result' = o.res
    /\ seen' = [rst |-> i_rst_n', start |-> i_start', op |-> i_op',
                a |-> i_a', b |-> i_b']
    /\ ticks' = t + 1
    /\ lowticks' = IF i_start' = 0 THEN l + 1 ELSE l

Tick(o) == TickFrom(ticks, lowticks, o)

----------------------------------------------------------------------------
(* Initial state: main has constructed the unit, nothing is driven yet *)

NoTick == [rst |-> 0, start |-> 0, op |-> 0, a |-> 0, b |-> 0]
NoObs == [doneAt |-> 0, done |-> FALSE, busy |-> FALSE, res |-> 0]

InitMain ==
    /\ i_rst_n = 0 /\ i_start = 0 /\ i_op = 0 /\ i_a = 0 /\ i_b = 0
    /\ o_done = FALSE /\ o_busy = FALSE /\ o_result = 0
    /\ pass_count = 0 /\ fail_count = 0
    /\ ip = 1 /\ pc = "main"
    /\ i = 0 /\ cycles = 0 /\ result = 0 /\ captured = FALSE
    /\ r = 0 /\ cyc \in UninitInt /\ retval = 0
    /\ exit_status = 0
    /\ seen = NoTick /\ ticks = 0 /\ lowticks = 0
    /\ obs = NoObs
    /\ pass0 = 0 /\ fail0 = 0
    /\ failed = FALSE

\* k10_tb's main before its loop (lines 73-77): clock and reset low, no
\* cycle run, no finish seen; trace is the --trace flag
NoTb == [pc |-> "loop", cycle |-> 0, i_clk |-> 0, i_rst_n |-> 0,
         gotFinish |-> FALSE, finish_status |-> 0, time |-> 0,
         trace |-> FALSE, evals |-> 0, lowEvals |-> 0, finAt |-> 0]

\* the firmware at the entry of its main: nothing enabled, no trap taken,
\* nothing written to SIM_CTRL
NoFw == [at |-> 1, mode |-> "run", i |-> 0, mie |-> {}, msip |-> 0,
         armed |-> FALSE, mcause |-> 0, mepc |-> 0, ret |-> 0,
         trap_count |-> 0, last_mcause |-> 0,
         timer_fired |-> 0, sw_irq_fired |-> 0, ecall_fired |-> 0,
         ebreak_fired |-> 0, failures |-> 0,
         sim |-> <<>>, halted |-> FALSE,
         taken |-> [c \in {3, 7} |-> 0], anyFalse |-> FALSE,
         asserts |-> 0]

\* the oracle's record while main runs: main calls the oracle only for the
\* expected values of its list
NoOracle == [a |-> 0, b |-> 0, done |-> {}, div |-> 0, divu |-> 0,
             rem |-> 0, remu |-> 0]

Init == InitMain /\ unit = "opaque" /\ orc = NoOracle /\ tb = NoTb /\ fw = NoFw

InitContract ==
    InitMain /\ unit = "contract" /\ orc = NoOracle /\ tb = NoTb /\ fw = NoFw

\* the words the oracle is applied to
OracleWords ==
    {Program[k].a : k \in 1..Len(Program)}
        \cup {Program[k].b : k \in 1..Len(Program)}
        \cup ((0 - MaxMag)..MaxMag)
        \cup {INT_MIN + k : k \in 0..MaxMag}
        \cup {(0 - (INT_MIN + 1)) - k : k \in 0..MaxMag}

\* the oracle about to be applied to a pair of words
InitOracle ==
    /\ InitMain /\ unit = "opaque" /\ tb = NoTb /\ fw = NoFw
    /\ \E x \in OracleWords, y \in OracleWords :
          orc = [NoOracle EXCEPT !.a = x, !.b = y]

----------------------------------------------------------------------------
(* The oracle applied to the pair (orc.a, orc.b) *)

\* lines 138-142
DivEval ==
    /\ "div" \notin orc.done
    /\ orc' = [orc EXCEPT !.done = @ \cup {"div"},
                          !.div = riscv_div(orc.a, orc.b)]
    /\ UNCHANGED <<mainvars, tb, fw>>

\* lines 144-147
DivuEval ==
    /\ "divu" \notin orc.done
    /\ orc' = [orc EXCEPT !.done = @ \cup {"divu"},
                          !.divu = riscv_divu(orc.a, orc.b)]
    /\ UNCHANGED <<mainvars, tb, fw>>

\* lines 149-153
RemEval ==
    /\ "rem" \notin orc.done
    /\ orc' = [orc EXCEPT !.done = @ \cup {"rem"},
                          !.rem = riscv_rem(orc.a, orc.b)]
    /\ UNCHANGED <<mainvars, tb, fw>>

\* lines 155-158
RemuEval ==
    /\ "remu" \notin orc.done
    /\ orc' = [orc EXCEPT !.done = @ \cup {"remu"},
                          !.remu = riscv_remu(orc.a, orc.b)]
    /\ UNCHANGED <<mainvars, tb, fw>>

----------------------------------------------------------------------------
(* reset() *)

\* lines 49-53: drive reset with start, operation and operands at zero
ResetAssert ==
    /\ pc = "main" /\ ip <= LastStmt /\ Stmt.kind = "reset"
    /\ i_rst_n' = 0 /\ i_start' = 0 /\ i_op' = 0 /\ i_a' = 0 /\ i_b' = 0
    /\ i' = 0
    /\ ticks' = 0 /\ lowticks' = 0 /\ obs' = NoObs
    /\ pass0' = pass_count /\ fail0' = fail_count
    /\ pc' = "reset_loop"
    /\ UNCHANGED <<o_done, o_busy, o_result, pass_count, fail_count, ip,
                   cycles, result, captured, r, cyc, retval, exit_status,
                   unit, failed, orc, tb, fw, seen>>

\* line 54: one iteration of the hold loop
ResetTick ==
    /\ pc = "reset_loop" /\ i < ResetHold
    /\ UNCHANGED <<i_rst_n, i_start, i_op, i_a, i_b>>
    /\ \E o \in UnitOutputs(TRUE) : Tick(o)
    /\ i' = i + 1
    /\ UNCHANGED <<pass_count, fail_count, ip, pc, cycles, result, captured,
                   r, cyc, retval, exit_status, unit, failed, orc, tb, fw, obs, pass0, fail0>>

\* reset() returning as soon as reset is released, without the cycle after
ResetRelease_NoSettle ==
    /\ pc = "reset_loop" /\ i >= ResetHold
    /\ i_rst_n' = 1
    /\ UNCHANGED <<i_start, i_op, i_a, i_b>>
    /\ i' = 0
    /\ ip' = ip + 1
    /\ pc' = "main"
    /\ UNCHANGED <<o_done, o_busy, o_result, seen, ticks, lowticks,
                   pass_count, fail_count, cycles, result, captured,
                   r, cyc, retval, exit_status, unit, failed, orc, tb, fw, obs,
                   pass0, fail0>>

\* lines 55-56: release reset, one more cycle, return to main
ResetRelease ==
    /\ pc = "reset_loop" /\ i >= ResetHold
    /\ i_rst_n' = 1
    /\ UNCHANGED <<i_start, i_op, i_a, i_b>>
    /\ \E o \in UnitOutputs(TRUE) : Tick(o)
    /\ i' = 0
    /\ ip' = ip + 1
    /\ pc' = "main"
    /\ UNCHANGED <<pass_count, fail_count, cycles, result, captured,
                   r, cyc, retval, exit_status, unit, failed, orc, tb, fw, obs, pass0, fail0>>

----------------------------------------------------------------------------
(* run_div_op() *)

\* lines 66-73: drive the request, assert start, initialise the locals
DivStart ==
    /\ pc = "main" /\ ip <= LastStmt /\ Stmt.kind = "div"
    /\ i_op' = Stmt.op /\ i_a' = Stmt.a /\ i_b' = Stmt.b
    /\ i_start' = 1
    /\ cycles' = 0 /\ result' = 0 /\ captured' = FALSE
    /\ i' = 0
    /\ ticks' = 0 /\ lowticks' = 0 /\ obs' = NoObs
    /\ pass0' = pass_count /\ fail0' = fail_count
    /\ pc' = "div_loop"
    /\ UNCHANGED <<i_rst_n, o_done, o_busy, o_result, pass_count, fail_count,
                   ip, r, cyc, retval, exit_status, unit, failed, orc, tb, fw, seen>>

\* the polling loop giving up one iteration early: a done that first shows
\* on the last poll is not captured
DivPoll_LastMissed ==
    /\ pc = "div_loop" /\ i < PollBound
    /\ UNCHANGED <<i_rst_n, i_start, i_op, i_a, i_b>>
    /\ \E o \in UnitOutputs(cycles + 1 \in DoneCycles) : Tick(o)
    /\ cycles' = cycles + 1
    /\ obs' = IF o_done' /\ obs.doneAt = 0
              THEN [doneAt |-> ticks', done |-> TRUE, busy |-> o_busy',
                    res |-> o_result']
              ELSE obs
    /\ IF o_done' /\ ~captured /\ i + 1 < PollBound
       THEN /\ result' = o_result'
            /\ captured' = TRUE
            /\ i' = i
            /\ pc' = "div_after"
       ELSE /\ UNCHANGED <<result, captured>>
            /\ i' = i + 1
            /\ pc' = IF i + 1 < PollBound THEN "div_loop" ELSE "div_after"
    /\ UNCHANGED <<pass_count, fail_count, ip, r, cyc, retval, exit_status,
                   unit, failed, orc, tb, fw, pass0, fail0>>

\* the polling loop driving start as a one-cycle strobe instead of a level
DivPoll_Strobe ==
    /\ pc = "div_loop" /\ i < PollBound
    /\ i_start' = IF cycles >= 1 THEN 0 ELSE i_start
    /\ UNCHANGED <<i_rst_n, i_op, i_a, i_b>>
    /\ \E o \in UnitOutputs(cycles + 1 \in DoneCycles) : Tick(o)
    /\ cycles' = cycles + 1
    /\ obs' = IF o_done' /\ obs.doneAt = 0
              THEN [doneAt |-> ticks', done |-> TRUE, busy |-> o_busy',
                    res |-> o_result']
              ELSE obs
    /\ IF o_done' /\ ~captured
       THEN /\ result' = o_result'
            /\ captured' = TRUE
            /\ i' = i
            /\ pc' = "div_after"
       ELSE /\ UNCHANGED <<result, captured>>
            /\ i' = i + 1
            /\ pc' = IF i + 1 < PollBound THEN "div_loop" ELSE "div_after"
    /\ UNCHANGED <<pass_count, fail_count, ip, r, cyc, retval, exit_status,
                   unit, failed, orc, tb, fw, pass0, fail0>>

\* the polling loop counting busy-with-done as a failure, not a warning
DivPoll_BusyFails ==
    /\ pc = "div_loop" /\ i < PollBound
    /\ UNCHANGED <<i_rst_n, i_start, i_op, i_a, i_b>>
    /\ \E o \in UnitOutputs(cycles + 1 \in DoneCycles) : Tick(o)
    /\ cycles' = cycles + 1
    /\ obs' = IF o_done' /\ obs.doneAt = 0
              THEN [doneAt |-> ticks', done |-> TRUE, busy |-> o_busy',
                    res |-> o_result']
              ELSE obs
    /\ IF o_done' /\ ~captured
       THEN /\ result' = o_result'
            /\ captured' = TRUE
            /\ i' = i
            /\ pc' = "div_after"
            /\ fail_count' = IF o_busy' THEN fail_count + 1 ELSE fail_count
       ELSE /\ UNCHANGED <<result, captured, fail_count>>
            /\ i' = i + 1
            /\ pc' = IF i + 1 < PollBound THEN "div_loop" ELSE "div_after"
    /\ UNCHANGED <<pass_count, ip, r, cyc, retval, exit_status,
                   unit, failed, orc, tb, fw, pass0, fail0>>

\* lines 75-89: one iteration of the polling loop
DivPoll ==
    /\ pc = "div_loop" /\ i < PollBound
    /\ UNCHANGED <<i_rst_n, i_start, i_op, i_a, i_b>>
    /\ \E o \in UnitOutputs(cycles + 1 \in DoneCycles) : Tick(o)
    /\ cycles' = cycles + 1
    /\ obs' = IF o_done' /\ obs.doneAt = 0
              THEN [doneAt |-> ticks', done |-> TRUE, busy |-> o_busy',
                    res |-> o_result']
              ELSE obs
    /\ IF o_done' /\ ~captured
       THEN /\ result' = o_result'
            /\ captured' = TRUE
            /\ i' = i
            /\ pc' = "div_after"
       ELSE /\ UNCHANGED <<result, captured>>
            /\ i' = i + 1
            /\ pc' = IF i + 1 < PollBound THEN "div_loop" ELSE "div_after"
    /\ UNCHANGED <<pass_count, fail_count, ip, r, cyc, retval, exit_status,
                   unit, failed, orc, tb, fw, pass0, fail0>>

\* the timeout path returning with start still asserted
DivTimeout_StartLeftHigh ==
    /\ pc = "div_after" /\ ~captured
    /\ fail_count' = fail_count + 1
    /\ UNCHANGED <<i_rst_n, i_start, i_op, i_a, i_b>>
    /\ \E o \in UnitOutputs(TRUE) : Tick(o)
    /\ retval' = DEADBEEF
    /\ r' = DEADBEEF
    /\ failed' = (failed \/ obs.doneAt = 0)
    /\ pc' = "check"
    /\ UNCHANGED <<pass_count, ip, i, cycles, result, captured, cyc,
                   exit_status, unit, orc, tb, fw, obs, pass0, fail0>>

\* the timeout path reporting the polls it made as the cycle count
DivTimeout_ReportsBound ==
    /\ pc = "div_after" /\ ~captured
    /\ fail_count' = fail_count + 1
    /\ i_start' = 0
    /\ UNCHANGED <<i_rst_n, i_op, i_a, i_b>>
    /\ \E o \in UnitOutputs(TRUE) : Tick(o)
    /\ cyc' = cycles
    /\ retval' = DEADBEEF
    /\ r' = DEADBEEF
    /\ failed' = (failed \/ obs.doneAt = 0)
    /\ pc' = "check"
    /\ UNCHANGED <<pass_count, ip, i, cycles, result, captured,
                   exit_status, unit, orc, tb, fw, obs, pass0, fail0>>

\* lines 91-97: no done within the bound
DivTimeout ==
    /\ pc = "div_after" /\ ~captured
    /\ fail_count' = fail_count + 1
    /\ i_start' = 0
    /\ UNCHANGED <<i_rst_n, i_op, i_a, i_b>>
    /\ \E o \in UnitOutputs(TRUE) : Tick(o)
    /\ retval' = DEADBEEF
    /\ r' = DEADBEEF
    /\ failed' = (failed \/ obs.doneAt = 0)
    /\ pc' = "check"
    /\ UNCHANGED <<pass_count, ip, i, cycles, result, captured, cyc,
                   exit_status, unit, orc, tb, fw, obs, pass0, fail0>>

\* the success path returning the result as it stands after the release
\* cycle instead of the captured one
DivRelease_LateSample ==
    /\ pc = "div_after" /\ captured
    /\ i_start' = 0
    /\ UNCHANGED <<i_rst_n, i_op, i_a, i_b>>
    /\ \E o \in UnitOutputs(TRUE) : Tick(o)
    /\ cyc' = cycles
    /\ retval' = o_result'
    /\ r' = o_result'
    /\ pc' = "check"
    /\ UNCHANGED <<pass_count, fail_count, ip, i, cycles, result, captured,
                   exit_status, unit, failed, orc, tb, fw, obs, pass0, fail0>>

\* lines 99-104: done was captured
DivRelease ==
    /\ pc = "div_after" /\ captured
    /\ i_start' = 0
    /\ UNCHANGED <<i_rst_n, i_op, i_a, i_b>>
    /\ \E o \in UnitOutputs(TRUE) : Tick(o)
    /\ cyc' = cycles
    /\ retval' = result
    /\ r' = result
    /\ pc' = "check"
    /\ UNCHANGED <<pass_count, fail_count, ip, i, cycles, result, captured,
                   exit_status, unit, failed, orc, tb, fw, obs, pass0, fail0>>

----------------------------------------------------------------------------
(* run_mul_op() *)

\* the multiply returning the sentinel when done is missing
MulStart_Sentinel ==
    /\ pc = "main" /\ ip <= LastStmt /\ Stmt.kind = "mul"
    /\ i_op' = Stmt.op /\ i_a' = Stmt.a /\ i_b' = Stmt.b
    /\ i_start' = 1
    /\ UNCHANGED i_rst_n
    /\ pass0' = pass_count /\ fail0' = fail_count
    /\ \E o \in UnitOutputs(TRUE) : TickFrom(0, 0, o)
    /\ obs' = [doneAt |-> IF o_done' THEN ticks' ELSE 0, done |-> o_done',
               busy |-> o_busy', res |-> o_result']
    /\ result' = IF ~o_done' THEN DEADBEEF ELSE o_result'
    /\ fail_count' = IF ~o_done' THEN fail_count + 1 ELSE fail_count
    /\ failed' = (failed \/ ~o_done')
    /\ pc' = "mul_release"
    /\ UNCHANGED <<pass_count, ip, i, cycles, captured, r, cyc, retval,
                   exit_status, unit, orc, tb, fw>>

\* lines 109-120: drive the request, one cycle, sample result and done
MulStart ==
    /\ pc = "main" /\ ip <= LastStmt /\ Stmt.kind = "mul"
    /\ i_op' = Stmt.op /\ i_a' = Stmt.a /\ i_b' = Stmt.b
    /\ i_start' = 1
    /\ UNCHANGED i_rst_n
    /\ pass0' = pass_count /\ fail0' = fail_count
    /\ \E o \in UnitOutputs(TRUE) : TickFrom(0, 0, o)
    /\ obs' = [doneAt |-> IF o_done' THEN ticks' ELSE 0, done |-> o_done',
               busy |-> o_busy', res |-> o_result']
    /\ result' = o_result'
    /\ fail_count' = IF ~o_done' THEN fail_count + 1 ELSE fail_count
    /\ failed' = (failed \/ ~o_done')
    /\ pc' = "mul_release"
    /\ UNCHANGED <<pass_count, ip, i, cycles, captured, r, cyc, retval,
                   exit_status, unit, orc, tb, fw>>

\* the multiply waiting a second cycle after the release
MulRelease_ExtraCycle ==
    /\ pc = "mul_release"
    /\ i_start' = 0
    /\ UNCHANGED <<i_rst_n, i_op, i_a, i_b>>
    /\ \E o \in UnitOutputs(TRUE) : TickFrom(ticks + 1, lowticks + 1, o)
    /\ retval' = result
    /\ pc' = "check"
    /\ UNCHANGED <<pass_count, fail_count, ip, i, cycles, result, captured,
                   r, cyc, exit_status, unit, failed, orc, tb, fw, obs, pass0, fail0>>

\* lines 122-124: deassert start, one more cycle, return the sample
MulRelease ==
    /\ pc = "mul_release"
    /\ i_start' = 0
    /\ UNCHANGED <<i_rst_n, i_op, i_a, i_b>>
    /\ \E o \in UnitOutputs(TRUE) : Tick(o)
    /\ retval' = result
    /\ pc' = "check"
    /\ UNCHANGED <<pass_count, fail_count, ip, i, cycles, result, captured,
                   r, cyc, exit_status, unit, failed, orc, tb, fw, obs, pass0, fail0>>

----------------------------------------------------------------------------
(* check() and the end of main *)

\* check() comparing only the low halves of the two words
Check_LowHalf ==
    /\ pc = "check"
    /\ IF retval % 65536 = Stmt.expected % 65536
       THEN /\ pass_count' = pass_count + 1
            /\ UNCHANGED fail_count
       ELSE /\ fail_count' = fail_count + 1
            /\ UNCHANGED pass_count
    /\ failed' = (failed \/ retval # Stmt.expected)
    /\ ip' = ip + 1
    /\ pc' = "main"
    /\ i' = 0 /\ cycles' = 0 /\ result' = 0 /\ captured' = FALSE
    /\ UNCHANGED <<i_rst_n, i_start, i_op, i_a, i_b, o_done, o_busy, o_result,
                   r, cyc, retval, exit_status, unit, orc, tb, fw, seen, ticks, lowticks,
                   obs, pass0, fail0>>

\* check() ending the run at the first mismatch
Check_AbortOnFail ==
    /\ pc = "check"
    /\ IF retval = Stmt.expected
       THEN /\ pass_count' = pass_count + 1
            /\ ip' = ip + 1
            /\ pc' = "main"
            /\ UNCHANGED <<fail_count, exit_status>>
       ELSE /\ fail_count' = fail_count + 1
            /\ exit_status' = 1
            /\ pc' = "exit"
            /\ UNCHANGED <<pass_count, ip>>
    /\ failed' = (failed \/ retval # Stmt.expected)
    /\ i' = 0 /\ cycles' = 0 /\ result' = 0 /\ captured' = FALSE
    /\ UNCHANGED <<i_rst_n, i_start, i_op, i_a, i_b, o_done, o_busy, o_result,
                   r, cyc, retval, unit, orc, tb, fw, seen, ticks, lowticks,
                   obs, pass0, fail0>>

\* lines 127-135, called with the value the driver returned and the
\* statement's expected value; the driver's locals are out of scope after
Check ==
    /\ pc = "check"
    /\ IF retval = Stmt.expected
       THEN /\ pass_count' = pass_count + 1
            /\ UNCHANGED fail_count
       ELSE /\ fail_count' = fail_count + 1
            /\ UNCHANGED pass_count
    /\ failed' = (failed \/ retval # Stmt.expected)
    /\ ip' = ip + 1
    /\ pc' = "main"
    /\ i' = 0 /\ cycles' = 0 /\ result' = 0 /\ captured' = FALSE
    /\ UNCHANGED <<i_rst_n, i_start, i_op, i_a, i_b, o_done, o_busy, o_result,
                   r, cyc, retval, exit_status, unit, orc, tb, fw, seen, ticks, lowticks,
                   obs, pass0, fail0>>

\* the summary tolerating a single failure
Summary_OneAllowed ==
    /\ pc = "main" /\ ip > LastStmt
    /\ exit_status' = IF fail_count > 1 THEN 1 ELSE 0
    /\ pc' = "exit"
    /\ UNCHANGED <<i_rst_n, i_start, i_op, i_a, i_b, o_done, o_busy, o_result,
                   pass_count, fail_count, ip, i, cycles, result, captured,
                   r, cyc, retval, unit, failed, orc, tb, fw, seen, ticks, lowticks,
                   obs, pass0, fail0>>

\* lines 297-301: summary and exit status
Summary ==
    /\ pc = "main" /\ ip > LastStmt
    /\ exit_status' = IF fail_count > 0 THEN 1 ELSE 0
    /\ pc' = "exit"
    /\ UNCHANGED <<i_rst_n, i_start, i_op, i_a, i_b, o_done, o_busy, o_result,
                   pass_count, fail_count, ip, i, cycles, result, captured,
                   r, cyc, retval, unit, failed, orc, tb, fw, seen, ticks, lowticks, obs,
                   pass0, fail0>>

----------------------------------------------------------------------------
(* Specifications *)

Next ==
    \/ ResetAssert \/ ResetTick \/ ResetRelease
    \/ DivStart \/ DivPoll \/ DivTimeout \/ DivRelease
    \/ MulStart \/ MulRelease
    \/ Check
    \/ Summary

\* the testbench against an opaque unit
Spec == Init /\ [][Next]_vars

\* the same, every enabled step eventually taken (the program runs on)
FairSpec == Spec /\ WF_vars(Next)

\* the testbench against a unit that keeps its signal contract
SpecContract == InitContract /\ [][Next]_vars

OracleNext == DivEval \/ DivuEval \/ RemEval \/ RemuEval

\* the oracle alone, applied to each pair of OracleWords
SpecOracle == InitOracle /\ [][OracleNext]_vars

----------------------------------------------------------------------------
(* Properties *)

\* the statement main has just completed
Last == Program[ip - 1]

\* main has completed a case of the given kind and not yet begun the next
\* statement: obs, ticks, pass0 and fail0 still describe that case
CaseDone(kind) == pc \in {"main", "exit"} /\ ip > 1 /\ Last.kind = kind

\* the divide case just completed timed out: done was seen on no poll
TimedOut == CaseDone("div") /\ obs.doneAt = 0

\* C1: a divide case that timed out is counted as one failure by the
\* driver and its sentinel is not compared again: over the whole case the
\* fail counter rises by exactly one and the pass counter does not move.
\* The code hands the sentinel to check(), which counts a second failure.
C1_TimeoutCountedOnce ==
    TimedOut => (fail_count = fail0 + 1 /\ pass_count = pass0)

\* the driver has returned from the case of the given kind and check() has
\* not yet been called on the value
Returned(kind) == pc = "check" /\ Stmt.kind = kind

\* what the driver's polling and return must satisfy
C2_Polling ==
    /\ pc \in {"div_loop", "div_after"} => (cycles <= 200 /\ ticks = cycles)
    /\ Returned("div") =>
          IF obs.doneAt = 0
          THEN /\ ticks = 201
               /\ fail_count = fail0 + 1 /\ pass_count = pass0
               /\ retval = DEADBEEF
          ELSE /\ obs.doneAt \in 1..200
               /\ ticks = obs.doneAt + 1
               /\ fail_count = fail0 /\ pass_count = pass0

\* C2: whatever the unit does, run_div_op polls at most 200 cycles and
\* returns; it reports a timeout (one failure, the sentinel) exactly when
\* done was low on all 200 polls, and a done first seen on poll 200 is a
\* success.
C2_BoundedPoll == [](C2_Polling) /\ ((pc = "div_loop") ~> (pc = "check"))

\* done came on the 200th poll and the driver returned without a failure
C2_Witness ==
    Returned("div") /\ obs.doneAt = 200 /\ fail_count = fail0
        /\ retval = obs.res

\* C3: when a divide does not time out, the value returned is the result
\* sampled on the first cycle that showed done, and the cycle count
\* reported is that cycle's 1-based index since start was asserted.
C3_FirstDoneSample ==
    (Returned("div") /\ obs.doneAt # 0) =>
        /\ retval = obs.res /\ r = obs.res
        /\ cyc = obs.doneAt
        /\ cyc \in 1..200

\* the unit changed result and dropped done on the release cycle, and the
\* value returned is still the one sampled with done
C3_Witness ==
    /\ Returned("div") /\ obs.doneAt = 2
    /\ o_result # obs.res /\ ~o_done
    /\ retval = obs.res /\ cyc = 2

\* C4: on every cycle of a divide, from the first after start is asserted
\* to the one that shows done (or the 200th), start is 1 and operation and
\* operands are the request's; the only cycle with start low is the one
\* after done was seen or the bound expired.
C4_StartHeld ==
    /\ pc \in {"div_loop", "div_after"} =>
          /\ i_start = 1 /\ i_op = Stmt.op /\ i_a = Stmt.a /\ i_b = Stmt.b
          /\ lowticks = 0
          /\ ticks >= 1 =>
                seen = [rst |-> i_rst_n, start |-> 1, op |-> Stmt.op,
                        a |-> Stmt.a, b |-> Stmt.b]
    /\ Returned("div") =>
          /\ lowticks = 1
          /\ ticks = (IF obs.doneAt = 0 THEN 200 ELSE obs.doneAt) + 1

\* the 200th poll of a divide that is about to time out saw start high
C4_Witness ==
    /\ pc = "div_after" /\ ~captured /\ ticks = 200
    /\ seen.start = 1 /\ seen.a = Stmt.a /\ seen.b = Stmt.b

\* C5: every driver operation ends with start deasserted and exactly one
\* cycle with start low, so start is 0 whenever no operation is executing
\* and the last cycle before any request had start low.
C5_OneInFlight ==
    /\ pc \in {"main", "check", "exit"} => (i_start = 0 /\ seen.start = 0)
    /\ pc = "check" => lowticks = 1
    /\ pc \in {"div_loop", "div_after", "mul_release"} => lowticks = 0

\* a divide timed out and main is about to issue the next divide
C5_Witness ==
    /\ TimedOut /\ pc = "main" /\ ip <= LastStmt /\ Stmt.kind = "div"
    /\ i_start = 0 /\ seen.start = 0 /\ lowticks = 1

\* C6: busy showing on the cycle done is first seen only draws a warning:
\* the driver leaves the counters alone and returns the value captured on
\* that cycle, and the case passes or fails by that value alone.
C6_BusyWarningOnly ==
    /\ (Returned("div") /\ obs.doneAt # 0 /\ obs.busy) =>
          /\ fail_count = fail0 /\ pass_count = pass0
          /\ retval = obs.res
    /\ (CaseDone("div") /\ obs.doneAt # 0 /\ obs.busy) =>
          IF obs.res = Last.expected
          THEN pass_count = pass0 + 1 /\ fail_count = fail0
          ELSE pass_count = pass0 /\ fail_count = fail0 + 1

\* a divide whose done came with busy high passed
C6_Witness ==
    /\ CaseDone("div") /\ obs.doneAt # 0 /\ obs.busy
    /\ pass_count = pass0 + 1 /\ fail_count = fail0

C8_MulTwoCycles ==
    /\ pc = "mul_release" =>
          /\ ticks = 1 /\ lowticks = 0
          /\ seen = [rst |-> i_rst_n, start |-> 1, op |-> Stmt.op,
                     a |-> Stmt.a, b |-> Stmt.b]
          /\ result = o_result
    /\ Returned("mul") =>
          /\ ticks = 2 /\ lowticks = 1
          /\ seen.start = 0 /\ i_start = 0

\* a multiply whose done was missing still took two cycles
C8_Witness == CaseDone("mul") /\ ~obs.done /\ ticks = 2 /\ lowticks = 1

\* C9: a multiply without done after its single cycle costs exactly one
\* failure and still returns the result seen on that cycle; with done the
\* driver changes no counter.
C9_MulDoneMissing ==
    Returned("mul") =>
        /\ retval = obs.res
        /\ pass_count = pass0
        /\ fail_count = (IF obs.done THEN fail0 ELSE fail0 + 1)

\* done was missing, one failure was recorded, the value returned is the
\* one sampled and not the sentinel
C9_Witness ==
    /\ Returned("mul") /\ ~obs.done
    /\ fail_count = fail0 + 1
    /\ retval = obs.res /\ retval # DEADBEEF /\ o_result # retval

\* C10: check() compares all 32 bits: on equal words the pass counter
\* rises by one and the fail counter stays, otherwise the fail counter
\* rises by one and the pass counter stays; no step lowers a counter.
C10_CheckCounts ==
    [][ /\ pc = "check" =>
            IF retval = Stmt.expected
            THEN pass_count' = pass_count + 1 /\ fail_count' = fail_count
            ELSE fail_count' = fail_count + 1 /\ pass_count' = pass_count
        /\ pass_count' >= pass_count
        /\ fail_count' >= fail_count ]_vars

\* a case was checked whose value differs from the expected one in the top
\* bit only, and it was counted as failed; an earlier case had passed
C10_Witness ==
    /\ pc = "main" /\ ip > 1 /\ Last.kind # "reset"
    /\ retval = FlipTop(Last.expected)
    /\ fail_count = fail0 + 1 /\ pass_count = pass0
    /\ pass_count >= 1

\* C11: the exit status is non-zero exactly when a failure (a mismatch, a
\* divide timeout or a multiply without done) occurred during the run.
C11_ExitStatus ==
    /\ exit_status \in {0, 1}
    /\ pc = "exit" => (exit_status # 0 <=> failed)

\* the run ended with status 1 after a single failure among passing cases
C11_Witness ==
    pc = "exit" /\ exit_status = 1 /\ fail_count = 1 /\ pass_count >= 2

\* main moves to its next statement only from the end of a reset or from
\* check(), one statement at a time, and every check() counts the case
C12_InOrder ==
    ip' # ip =>
        /\ ip' = ip + 1
        /\ IF Stmt.kind = "reset"
           THEN pc = "reset_loop"
           ELSE /\ pc = "check"
                /\ pass_count' + fail_count' = pass_count + fail_count + 1

\* a case that reaches check() was shown to the unit with start high, and
\* the run ends only after the last statement
C12_Issued ==
    /\ pc = "check" =>
          /\ ticks - lowticks >= 1
          /\ seen.rst = 1 /\ seen.op = Stmt.op /\ seen.a = Stmt.a
          /\ seen.b = Stmt.b
    /\ pc = "exit" => ip = LastStmt + 1
    /\ ip \in 1..(LastStmt + 1)

\* C12: no failure aborts the suite: whatever failed before, main issues
\* each later case to the unit and checks it, in the order of its list, and
\* the run always reaches the summary and the exit status.
C12_NoAbort == [][C12_InOrder]_vars /\ [](C12_Issued) /\ <>(pc = "exit")

\* the run reached the exit after a case had failed and the last case,
\* issued after that failure, had passed
C12_Witness ==
    /\ pc = "exit" /\ ip = LastStmt + 1 /\ Last.kind # "reset"
    /\ fail0 >= 1 /\ pass_count = pass0 + 1 /\ exit_status = 1

\* C13: reset() holds reset active for exactly 5 cycles with start low and
\* operation and operands zero, then releases it and runs exactly one more
\* cycle; the first operation is issued only after a completed reset, and
\* the unit never sees reset active together with start.
C13_ResetSequence ==
    /\ pc = "reset_loop" =>
          /\ i_rst_n = 0 /\ i_start = 0 /\ i_op = 0 /\ i_a = 0 /\ i_b = 0
          /\ ticks = i /\ ticks <= 5
          /\ ticks >= 1 => seen = NoTick
    /\ (pc = "main" /\ ip > 1 /\ Last.kind = "reset") =>
          /\ ticks = 6 /\ lowticks = 6
          /\ i_rst_n = 1
          /\ seen = [rst |-> 1, start |-> 0, op |-> 0, a |-> 0, b |-> 0]
    /\ (pc = "main" /\ ip = 1) => (i_start = 0 /\ ticks = 0)
    /\ i_start = 1 => (i_rst_n = 1 /\ ip > 1)
    /\ seen.start = 1 => seen.rst = 1

\* the first reset has completed with six cycles, the last one with reset
\* released, and main is about to issue the first multiply
C13_Witness ==
    /\ pc = "main" /\ ip = 2 /\ Stmt.kind = "mul"
    /\ ticks = 6 /\ seen.rst = 1 /\ seen.start = 0 /\ i_rst_n = 1

----------------------------------------------------------------------------
(* Properties of the oracle *)

\* the four functions have been applied to the pair
OracleDone(fs) == fs \subseteq orc.done

\* C14: for every word a, riscv_divu(a, 0) and riscv_div(a, 0) are the
\* all-ones word, and riscv_remu(a, 0) and riscv_rem(a, 0) are a itself.
C14_DivideByZero ==
    orc.b = 0 =>
        /\ OracleDone({"divu"}) => orc.divu = ALL_ONES
        /\ OracleDone({"div"}) => orc.div = ALL_ONES
        /\ OracleDone({"remu"}) => orc.remu = orc.a
        /\ OracleDone({"rem"}) => orc.rem = orc.a

\* the four functions were applied to (-42, 0)
C14_Witness ==
    /\ orc.a = -42 /\ orc.b = 0
    /\ OracleDone({"div", "divu", "rem", "remu"})
    /\ orc.div = ALL_ONES /\ orc.divu = ALL_ONES
    /\ orc.rem = -42 /\ orc.remu = -42

\* C15: riscv_div(INT_MIN, -1) is INT_MIN and riscv_rem(INT_MIN, -1) is 0;
\* a zero divisor gives the divide-by-zero results even for INT_MIN, and
\* the overflow result is given for no other divisor of INT_MIN and for no
\* other dividend of -1.
C15_Overflow ==
    /\ (orc.a = INT_MIN /\ orc.b = -1) =>
          /\ OracleDone({"div"}) => orc.div = INT_MIN
          /\ OracleDone({"rem"}) => orc.rem = 0
    /\ (orc.a = INT_MIN /\ orc.b = 0) =>
          /\ OracleDone({"div"}) => orc.div = ALL_ONES
          /\ OracleDone({"rem"}) => orc.rem = INT_MIN
    /\ (orc.a = INT_MIN /\ orc.b \notin {0, -1}) =>
          (OracleDone({"div"}) => (orc.div = INT_MIN <=> orc.b = 1))
    /\ (orc.a # INT_MIN /\ orc.b = -1) =>
          /\ OracleDone({"div"}) => orc.div = 0 - orc.a
          /\ OracleDone({"rem"}) => orc.rem = 0

\* riscv_div and riscv_rem were applied to (INT_MIN, -1)
C15_Witness ==
    /\ orc.a = INT_MIN /\ orc.b = -1
    /\ OracleDone({"div", "rem"})
    /\ orc.div = INT_MIN /\ orc.rem = 0

\* Natural numbers of any size, as sequences of base-4096 digits, least
\* significant first, without leading zeros

\* the unsigned value of the word x
Digits(x) == <<x % 4096, (x \div 4096) % 4096, (x \div 16777216) % 256>>

\* the absolute value of the word x taken as signed
Magnitude(x) == IF x >= 0 \/ x = INT_MIN THEN Digits(x) ELSE Digits(0 - x)

RECURSIVE Carry(_, _)
\* the digits of the number whose columns are s, with carry c coming in
Carry(s, c) ==
    IF s = <<>>
    THEN (IF c = 0 THEN <<>> ELSE <<c % 4096>> \o Carry(<<>>, c \div 4096))
    ELSE <<(s[1] + c) % 4096>> \o Carry(Tail(s), (s[1] + c) \div 4096)

RECURSIVE Strip(_)
Strip(s) ==
    IF s # <<>> /\ s[Len(s)] = 0 THEN Strip(SubSeq(s, 1, Len(s) - 1)) ELSE s

Canon(s) == Strip(Carry(s, 0))

Col(s, k) == IF k \in 1..Len(s) THEN s[k] ELSE 0

RECURSIVE ColSum(_, _, _, _)
\* the sum of x[j] * y[k + 1 - j] over j >= n
ColSum(x, y, k, n) ==
    IF n > Len(x) THEN 0
    ELSE x[n] * Col(y, k + 1 - n) + ColSum(x, y, k, n + 1)

Times(x, y) ==
    Canon([k \in 1..(Len(x) + Len(y)) |-> ColSum(x, y, k, 1)])

Plus(x, y) ==
    Canon([k \in 1..(IF Len(x) > Len(y) THEN Len(x) ELSE Len(y)) |->
            Col(x, k) + Col(y, k)])

RECURSIVE LessN(_, _)
\* x < y, both without leading zeros
LessN(x, y) ==
    IF Len(x) # Len(y) THEN Len(x) < Len(y)
    ELSE IF x = <<>> THEN FALSE
    ELSE IF x[Len(x)] # y[Len(y)] THEN x[Len(x)] < y[Len(y)]
    ELSE LessN(SubSeq(x, 1, Len(x) - 1), SubSeq(y, 1, Len(y) - 1))

\* C16: for every word a and nonzero word b, as unsigned numbers,
\* riscv_divu(a, b) * b + riscv_remu(a, b) is a, computed without
\* wraparound, and riscv_remu(a, b) is less than b.
C16_UnsignedIdentity ==
    (orc.b # 0 /\ OracleDone({"divu", "remu"})) =>
        /\ Plus(Times(Digits(orc.divu), Digits(orc.b)), Digits(orc.remu))
              = Canon(Digits(orc.a))
        /\ LessN(Canon(Digits(orc.remu)), Canon(Digits(orc.b)))

\* 0xF01B3076 was divided by 0x69CC592B: both above the signed range or
\* large, quotient 2 and a nonzero remainder
C16_Witness ==
    /\ orc.a = W(61467, 12406) /\ orc.b = W(27084, 22827)
    /\ OracleDone({"divu", "remu"})
    /\ orc.divu = 2 /\ orc.remu # 0

\* q * d + m = n for signed words, each term moved to the side where it is
\* not negative
SignedIdentity(q, d, m, n) ==
    LET qd == Times(Magnitude(q), Magnitude(d))
        neg == (q < 0) # (d < 0)
        left == Plus(Plus(IF neg THEN <<>> ELSE qd,
                          IF m < 0 THEN <<>> ELSE Magnitude(m)),
                     IF n < 0 THEN Magnitude(n) ELSE <<>>)
        right == Plus(Plus(IF neg THEN qd ELSE <<>>,
                           IF m < 0 THEN Magnitude(m) ELSE <<>>),
                      IF n < 0 THEN <<>> ELSE Magnitude(n))
    IN  left = right

\* the pair for which the signed quotient is not representable
OverflowPair == orc.a = INT_MIN /\ orc.b = -1

\* C17: for every word a and nonzero word b other than (INT_MIN, -1), as
\* signed numbers, riscv_div(a, b) * b + riscv_rem(a, b) is a.
C17_SignedIdentity ==
    (orc.b # 0 /\ ~OverflowPair /\ OracleDone({"div", "rem"})) =>
        SignedIdentity(orc.div, orc.b, orc.rem, orc.a)

\* INT_MIN was divided by 3: quotient -715827882, remainder -2
C17_Witness ==
    /\ orc.a = INT_MIN /\ orc.b = 3
    /\ OracleDone({"div", "rem"})
    /\ orc.div = -715827882 /\ orc.rem = -2

\* C18: riscv_div truncates toward zero: outside a zero divisor and the
\* overflow pair, |quotient| is floor(|a| / |b|), the quotient is negative
\* exactly when a and b differ in sign and it is not zero, and the
\* remainder is zero or of the sign of a, with magnitude below |b|; so
\* DIV(-10, 3) is 0xFFFFFFFD and REM(-10, 3) is -1.
C18_Truncating ==
    /\ (orc.b # 0 /\ ~OverflowPair /\ OracleDone({"div"})) =>
          LET qb == Times(Magnitude(orc.div), Magnitude(orc.b))
          IN  /\ ~LessN(Canon(Magnitude(orc.a)), qb)
              /\ LessN(Canon(Magnitude(orc.a)), Plus(qb, Magnitude(orc.b)))
              /\ orc.div < 0 <=>
                    (((orc.a < 0) # (orc.b < 0)) /\ orc.div # 0)
    /\ (orc.b # 0 /\ ~OverflowPair /\ OracleDone({"rem"})) =>
          /\ orc.rem = 0 \/ ((orc.rem < 0) <=> (orc.a < 0))
          /\ LessN(Canon(Magnitude(orc.rem)), Canon(Magnitude(orc.b)))
    /\ (orc.a = -10 /\ orc.b = 3) =>
          /\ OracleDone({"div"}) => orc.div = W(65535, 65533)
          /\ OracleDone({"rem"}) => orc.rem = -1

\* -10 was divided by 3: quotient -3 (floor division gives -4), remainder
\* -1 (the floor remainder is 2)
C18_Witness ==
    /\ orc.a = -10 /\ orc.b = 3
    /\ OracleDone({"div", "rem"})
    /\ orc.div = -3 /\ orc.rem = -1

----------------------------------------------------------------------------
(* Properties of the tallies and of the cycle count *)

\* the cases (statements that are not resets) among the first n statements
NumCases(n) == Cardinality({k \in 1..n : Program[k].kind # "reset"})

\* C19: a case for which the driver recorded a failure itself (a divide
\* timeout, a multiply without done) is not also counted as passed, and
\* the two counters together count every executed case exactly once.
\* The code calls check() on whatever the driver returned, so such a case
\* is counted twice, one of the two possibly as a pass.
C19_EachCaseOnce ==
    /\ TimedOut => pass_count = pass0
    /\ (CaseDone("mul") /\ ~obs.done) => pass_count = pass0
    /\ pc \in {"main", "exit"} =>
          pass_count + fail_count = NumCases(ip - 1)

\* C20: run_div_op stores the cycle count only when done was captured;
\* the timeout path leaves the caller's variable as it was (the previous
\* operation's count, or unset), and nothing else writes it.
C20_CyclesOnlyOnSuccess ==
    [][ /\ cyc' # cyc => (pc = "div_after" /\ captured /\ cyc' = cycles)
        /\ (pc = "div_after" /\ ~captured) => cyc' = cyc ]_vars

\* a divide timed out after 200 polls and main's cyc still holds the 2
\* cycles of the divide before it
C20_Witness ==
    /\ Returned("div") /\ obs.doneAt = 0 /\ cycles = 200
    /\ retval = DEADBEEF /\ cyc = 2

----------------------------------------------------------------------------
(* k10_tb.cpp: the core testbench driver.  The simulated design is opaque: *)
(* any eval() may signal finish.                                           *)

MAX_CYCLES == MaxCycles

InitTb ==
    /\ InitMain /\ unit = "opaque" /\ orc = NoOracle /\ fw = NoFw
    /\ \E t \in BOOLEAN : tb = [NoTb EXCEPT !.trace = t]

\* lines 79-87: the loop test passes; clock low, eval, time advances
TbEvalLow ==
    /\ tb.pc = "loop" /\ ~tb.gotFinish /\ tb.cycle < MAX_CYCLES
    /\ \E f \in BOOLEAN :
          tb' = [tb EXCEPT !.i_clk = 0,
                           !.gotFinish = f,
                           !.finAt = IF f THEN tb.cycle + 1 ELSE 0,
                           !.time = @ + 5,
                           !.pc = "high"]
    /\ UNCHANGED <<mainvars, orc, fw>>

\* lines 89-101: clock high, eval, time advances; reset is released when
\* the cycle counter equals RESET_CYCLES; the counter is incremented
TbEvalHigh ==
    /\ tb.pc = "high"
    /\ \E f \in BOOLEAN :
          tb' = [tb EXCEPT !.i_clk = 1,
                           !.gotFinish = @ \/ f,
                           !.finAt = IF @ = 0 /\ f THEN tb.cycle + 1 ELSE @,
                           !.time = @ + 5,
                           !.i_rst_n = IF tb.cycle = RESET_CYCLES THEN 1 ELSE @,
                           !.cycle = @ + 1,
                           !.evals = @ + 1,
                           !.lowEvals = IF tb.i_rst_n = 0 THEN @ + 1 ELSE @,
                           !.pc = "loop"]
    /\ UNCHANGED <<mainvars, orc, fw>>

\* the status set from the cycle count alone
TbReport_CountOnly ==
    /\ tb.pc = "loop" /\ ~(~tb.gotFinish /\ tb.cycle < MAX_CYCLES)
    /\ tb' = [tb EXCEPT !.finish_status =
                            IF tb.cycle >= MAX_CYCLES THEN 1 ELSE 0,
                        !.pc = "exit"]
    /\ UNCHANGED <<mainvars, orc, fw>>

\* lines 79 and 104-121: the loop test fails; timeout or finished; return
TbReport ==
    /\ tb.pc = "loop" /\ ~(~tb.gotFinish /\ tb.cycle < MAX_CYCLES)
    /\ tb' = [tb EXCEPT !.finish_status =
                            IF tb.cycle >= MAX_CYCLES /\ ~tb.gotFinish
                            THEN 1 ELSE 0,
                        !.pc = "exit"]
    /\ UNCHANGED <<mainvars, orc, fw>>

TbNext == TbEvalLow \/ TbEvalHigh \/ TbReport

\* k10_tb against an opaque design
SpecTb == InitTb /\ [][TbNext]_vars

\* the same, the loop running on
FairSpecTb == SpecTb /\ WF_vars(TbNext)

\* what holds of the loop at every step and of its result
C21_Bounded ==
    /\ tb.evals <= MAX_CYCLES /\ tb.cycle <= MAX_CYCLES
    /\ tb.pc \in {"loop", "exit"} => tb.evals = tb.cycle
    /\ tb.finAt # 0 <=> tb.gotFinish
    /\ tb.pc = "exit" =>
          /\ tb.evals = (IF tb.finAt # 0 THEN tb.finAt ELSE MAX_CYCLES)
          /\ tb.finish_status \in {0, 1}
          /\ tb.finish_status = 1 <=>
                (tb.evals = MAX_CYCLES /\ ~tb.gotFinish)

\* C21: k10_tb's loop always terminates; it stops at the end of the first
\* cycle during which finish was signalled, or after MAX_CYCLES cycles,
\* never runs more than MAX_CYCLES cycles and returns 1 exactly when
\* MAX_CYCLES was reached with no finish (a finish during the last
\* permitted cycle gives 0).
C21_Terminates == [](C21_Bounded) /\ <>(tb.pc = "exit")

\* finish was signalled during the last permitted cycle and the status is 0
C21_Witness ==
    /\ tb.pc = "exit" /\ tb.finAt = MAX_CYCLES /\ tb.cycle = MAX_CYCLES
    /\ tb.finish_status = 0

\* C22: the design is evaluated with i_rst_n = 0 for exactly RESET_CYCLES
\* (5) full clock cycles and with i_rst_n = 1 on every later cycle.  The
\* code releases reset at the end of the iteration whose counter equals
\* RESET_CYCLES, which is the sixth.
C22_ResetCycles ==
    tb.lowEvals = (IF tb.evals <= 5 THEN tb.evals ELSE 5)

----------------------------------------------------------------------------
(* k10_c_selftest.c and k10.h: the firmware self-test, simulation build   *)
(* (K10_REAL_HW not defined).  The core it runs on is opaque: an           *)
(* assertion on a computed value may come out either way, an enabled and   *)
(* pending interrupt may be taken between any two steps, and an ecall or   *)
(* ebreak traps with any exception cause.  mie is the set of its bits that *)
(* are 1.  Console output is not modelled.                                 *)

MIE_MSIE == {3}
MIE_MTIE == {7}

TEST_ASSERT(f) == [op |-> "assert", flag |-> f, mask |-> {}]
CLEAR(f) == [op |-> "clear", flag |-> f, mask |-> {}]
WAIT_FOR(f) == [op |-> "wait", flag |-> f, mask |-> {}]
SET_MIE(m) == [op |-> "set_mie", flag |-> "", mask |-> m]
STEP(o) == [op |-> o, flag |-> "", mask |-> {}]

\* main's six tests, flattened, then its epilogue
FwProgram ==
    << TEST_ASSERT("opaque"), TEST_ASSERT("opaque"), TEST_ASSERT("opaque"),
       TEST_ASSERT("opaque"), TEST_ASSERT("opaque"), TEST_ASSERT("opaque"),
       TEST_ASSERT("opaque"), TEST_ASSERT("opaque"), STEP("return"),
       TEST_ASSERT("opaque"), TEST_ASSERT("opaque"), STEP("return"),
       CLEAR("timer_fired"), STEP("arm"), SET_MIE(MIE_MTIE),
       WAIT_FOR("timer_fired"), TEST_ASSERT("timer_fired"), STEP("return"),
       CLEAR("sw_irq_fired"), SET_MIE(MIE_MSIE), STEP("msip"),
       WAIT_FOR("sw_irq_fired"), TEST_ASSERT("sw_irq_fired"), STEP("return"),
       CLEAR("ecall_fired"), STEP("ecall"), TEST_ASSERT("ecall_fired"),
       STEP("return"),
       CLEAR("ebreak_fired"), STEP("ebreak"), TEST_ASSERT("ebreak_fired"),
       STEP("return"),
       STEP("finish") >>

\* the instruction main is at
Ins == FwProgram[fw.at]

\* main is executing (not in a trap, simulation not ended) at an
\* instruction of the given kind
FwAt(o) ==
    /\ ~fw.halted /\ fw.mode = "run"
    /\ fw.at <= Len(FwProgram) /\ Ins.op = o

\* the sim controller ends the simulation on a write to SIM_CTRL
FinishOnSimCtrl == TRUE

\* k10.h lines 117-126
sim_pass(f) == [f EXCEPT !.sim = Append(@, 1), !.halted = FinishOnSimCtrl]

\* k10.h lines 128-137
sim_fail(f) == [f EXCEPT !.sim = Append(@, 0), !.halted = FinishOnSimCtrl]

\* x + y on uint32_t, y small and positive
Add32(x, y) ==
    IF x > 2147483647 - y THEN ((x + INT_MIN) + y) + INT_MIN ELSE x + y

\* addresses a trap may be taken at
MepcWords == {W(0, 128), W(32767, 65532), W(65535, 65532)}

\* exception causes the core may report
ExcCauses == {2, 3, 11}

InitFw ==
    /\ InitMain /\ unit = "opaque" /\ orc = NoOracle /\ tb = NoTb
    /\ \E m \in SUBSET (MIE_MSIE \cup MIE_MTIE) : fw = [NoFw EXCEPT !.mie = m]

\* TEST_ASSERT that reports the failure on the console only
FwAssert_PrintOnly ==
    /\ FwAt("assert")
    /\ \E c \in (IF Ins.flag = "opaque" THEN BOOLEAN
                ELSE {fw[Ins.flag] # 0}) :
          fw' = [fw EXCEPT !.at = @ + 1, !.asserts = @ + 1,
                           !.anyFalse = @ \/ ~c]
    /\ UNCHANGED <<mainvars, orc, tb>>

\* k10.h lines 139-146 at each of the 14 call sites: a false condition
\* calls sim_fail(); execution goes on after it
FwAssert ==
    /\ FwAt("assert")
    /\ \E c \in (IF Ins.flag = "opaque" THEN BOOLEAN
                ELSE {fw[Ins.flag] # 0}) :
          fw' = IF c
                THEN [fw EXCEPT !.at = @ + 1, !.asserts = @ + 1]
                ELSE [sim_fail(fw) EXCEPT !.at = @ + 1, !.asserts = @ + 1,
                                          !.anyFalse = TRUE]
    /\ UNCHANGED <<mainvars, orc, tb>>

\* TEST_OK, return 0 (lines 95-96, 119-120, 149-150, 175-176, 193-194,
\* 211-212) and main's failures += (lines 224-229)
FwReturn ==
    /\ FwAt("return")
    /\ fw' = [fw EXCEPT !.failures = @ + 0, !.at = @ + 1]
    /\ UNCHANGED <<mainvars, orc, tb>>

\* lines 130, 160, 186, 204: the test clears its flag
FwClearFlag ==
    /\ FwAt("clear")
    /\ fw' = [fw EXCEPT ![Ins.flag] = 0, !.at = @ + 1]
    /\ UNCHANGED <<mainvars, orc, tb>>

\* lines 133-137: mtimecmp is set to mtime + 100
FwArmTimer ==
    /\ FwAt("arm")
    /\ fw' = [fw EXCEPT !.armed = TRUE, !.at = @ + 1]
    /\ UNCHANGED <<mainvars, orc, tb>>

\* lines 140, 163: set_csr(mie, mask); the source is counted anew
FwSetMie ==
    /\ FwAt("set_mie")
    /\ fw' = [fw EXCEPT !.mie = @ \cup Ins.mask,
                        !.taken = [c \in {3, 7} |->
                                      IF c \in Ins.mask THEN 0 ELSE @[c]],
                        !.at = @ + 1]
    /\ UNCHANGED <<mainvars, orc, tb>>

\* line 166: SIM_MSIP = 1
FwTriggerMsip ==
    /\ FwAt("msip")
    /\ fw' = [fw EXCEPT !.msip = 1, !.at = @ + 1]
    /\ UNCHANGED <<mainvars, orc, tb>>

\* lines 143-145, 169-171: one test of the wait loop's condition
FwWait ==
    /\ FwAt("wait")
    /\ fw' = IF fw.i < MaxWait /\ fw[Ins.flag] = 0
             THEN [fw EXCEPT !.i = @ + 1]
             ELSE [fw EXCEPT !.i = 0, !.at = @ + 1]
    /\ UNCHANGED <<mainvars, orc, tb>>

\* the core takes an interrupt: its cause is enabled in mie and pending
\* (the software interrupt while MSIP is set, the timer at any time)
FwInterrupt ==
    /\ ~fw.halted /\ fw.mode = "run" /\ fw.at <= Len(FwProgram)
    /\ fw.trap_count < MaxTraps
    /\ \E c \in {3, 7}, pc0 \in MepcWords :
          /\ c \in fw.mie
          /\ c = 3 => fw.msip = 1
          /\ fw' = [fw EXCEPT !.mode = "trap", !.mcause = INT_MIN + c,
                              !.mepc = pc0, !.taken[c] = @ + 1]
    /\ UNCHANGED <<mainvars, orc, tb>>

\* lines 189, 207: the ecall or ebreak instruction traps
FwException ==
    /\ FwAt("ecall") \/ FwAt("ebreak")
    /\ fw.trap_count < MaxTraps
    /\ \E c \in ExcCauses, pc0 \in MepcWords :
          fw' = [fw EXCEPT !.mode = "trap", !.mcause = c, !.mepc = pc0]
    /\ UNCHANGED <<mainvars, orc, tb>>

\* a trap handler that leaves the timer interrupt enabled
trap_handler_KeepsMTIE(f) ==
    LET t == [f EXCEPT !.trap_count = @ + 1, !.last_mcause = f.mcause]
    IN  IF f.mcause < 0
        THEN IF f.mcause - INT_MIN = 7
             THEN [t EXCEPT !.timer_fired = 1, !.ret = f.mepc]
             ELSE IF f.mcause - INT_MIN = 3
             THEN [t EXCEPT !.sw_irq_fired = 1, !.msip = 0,
                            !.mie = @ \ MIE_MSIE, !.ret = f.mepc]
             ELSE [t EXCEPT !.ret = f.mepc]
        ELSE IF f.mcause = 11
             THEN [t EXCEPT !.ecall_fired = 1, !.ret = Add32(f.mepc, 4)]
             ELSE IF f.mcause = 3
             THEN [t EXCEPT !.ebreak_fired = 1, !.ret = Add32(f.mepc, 4)]
             ELSE [t EXCEPT !.ret = Add32(f.mepc, 4)]

\* k10_c_selftest.c lines 33-69, called with f.mcause and f.mepc; the
\* value returned is f.ret.  Bit 31 of mcause is set when the word is
\* negative; mcause & 0x7FFFFFFF is then mcause - INT_MIN
trap_handler(f) ==
    LET t == [f EXCEPT !.trap_count = @ + 1, !.last_mcause = f.mcause]
    IN  IF f.mcause < 0
        THEN IF f.mcause - INT_MIN = 7
             THEN [t EXCEPT !.timer_fired = 1,
                            !.mie = @ \ MIE_MTIE, !.ret = f.mepc]
             ELSE IF f.mcause - INT_MIN = 3
             THEN [t EXCEPT !.sw_irq_fired = 1, !.msip = 0,
                            !.mie = @ \ MIE_MSIE, !.ret = f.mepc]
             ELSE [t EXCEPT !.ret = f.mepc]
        ELSE IF f.mcause = 11
             THEN [t EXCEPT !.ecall_fired = 1, !.ret = Add32(f.mepc, 4)]
             ELSE IF f.mcause = 3
             THEN [t EXCEPT !.ebreak_fired = 1, !.ret = Add32(f.mepc, 4)]
             ELSE [t EXCEPT !.ret = Add32(f.mepc, 4)]

\* the trap vector calls trap_handler
FwTrapHandler ==
    /\ ~fw.halted /\ fw.mode = "trap"
    /\ fw' = [trap_handler(fw) EXCEPT !.mode = "mret"]
    /\ UNCHANGED <<mainvars, orc, tb>>

\* the trap returns to the address the handler gave: to the instruction
\* the trap was taken at, or past it
FwMret ==
    /\ ~fw.halted /\ fw.mode = "mret"
    /\ fw' = [fw EXCEPT !.mode = "run",
                        !.at = IF fw.ret = fw.mepc THEN @ ELSE @ + 1]
    /\ UNCHANGED <<mainvars, orc, tb>>

\* lines 231-244: PASS when failures is 0, FAIL otherwise
FwFinish ==
    /\ FwAt("finish")
    /\ fw' = [(IF fw.failures = 0 THEN sim_pass(fw) ELSE sim_fail(fw))
                 EXCEPT !.at = @ + 1]
    /\ UNCHANGED <<mainvars, orc, tb>>

\* the testbench ends the simulation for a reason of its own (k10_tb's
\* cycle limit)
FwSimStop ==
    /\ ~fw.halted /\ fw.at <= Len(FwProgram)
    /\ fw' = [fw EXCEPT !.halted = TRUE]
    /\ UNCHANGED <<mainvars, orc, tb>>

FwNext ==
    \/ FwAssert \/ FwReturn \/ FwClearFlag \/ FwArmTimer \/ FwSetMie
    \/ FwTriggerMsip \/ FwWait
    \/ FwInterrupt \/ FwException \/ FwTrapHandler \/ FwMret
    \/ FwFinish \/ FwSimStop

\* the self-test on an opaque core
SpecFw == InitFw /\ [][FwNext]_vars

\* C23: when trap_handler has handled a machine timer interrupt MTIE is
\* clear in mie, and when it has handled a machine software interrupt
\* MSIP is 0 and MSIE is clear, so that neither is taken twice unless the
\* test enables it again; an interrupt returns to mepc, an exception to
\* mepc + 4.
C23_NoReentry ==
    /\ fw.mode = "mret" =>
          /\ fw.mcause = INT_MIN + 7 => (7 \notin fw.mie)
          /\ fw.mcause = INT_MIN + 3 => (fw.msip = 0 /\ 3 \notin fw.mie)
          /\ fw.mcause < 0 => fw.ret = fw.mepc
          /\ fw.mcause >= 0 =>
                fw.ret = (IF fw.mepc = W(32767, 65532) THEN INT_MIN
                          ELSE fw.mepc + 4)
    /\ \A c \in {3, 7} : fw.taken[c] <= 1

\* the timer interrupt was taken in the wait loop of the timer test and
\* the handler has returned with MTIE clear
C23_Witness ==
    /\ fw.mode = "mret" /\ fw.mcause = INT_MIN + 7
    /\ fw.at <= Len(FwProgram) /\ Ins.op = "wait"
    /\ fw.timer_fired = 1 /\ 7 \notin fw.mie /\ fw.ret = fw.mepc

\* C24: once a TEST_ASSERT condition was false, 0 has been written to
\* SIM_CTRL and 1 is never written after it; 1 is written only when all 14
\* assertions of the six tests held.
C24_FailNeverPass ==
    /\ fw.anyFalse => (fw.sim # <<>> /\ fw.sim[1] = 0)
    /\ \A k \in 1..Len(fw.sim) :
          fw.sim[k] = 1 =>
              /\ \A j \in 1..(k - 1) : fw.sim[j] # 0
              /\ ~fw.anyFalse /\ fw.asserts = 14

\* the timer interrupt never fired: the assertion of the timer test was
\* false, FAIL was written and the simulation ended
C24_Witness ==
    /\ fw.anyFalse /\ fw.sim = <<0>> /\ fw.halted
    /\ fw.asserts = 11 /\ fw.timer_fired = 0

====
